---- MODULE Spec2Model ----
(***************************************************************************)
(* Observation processor of releat (src/releat/gym_env/obs_processor.py):  *)
(* the raw-data window (init_raw_data, update_raw_data), the observation   *)
(* assembly (get_obs) and the numeric utilities (sample_price,             *)
(* portfolio_to_model_input, get_curr_price).                              *)
(*                                                                         *)
(* Numbers.  Feature values are carried as integers: fixed-point numbers   *)
(* whose unit is a power of two, so that the float32 cast is the same      *)
(* function on the integer as on the value it stands for (F32 below), and  *)
(* every subtraction and division the model performs is exact.  Prices of  *)
(* sample_price are carried in points, with pip a multiple of 10 points,   *)
(* so that r * pip / 10 is exact.                                          *)
(***************************************************************************)
EXTENDS Integers, Sequences, FiniteSets, TLC

VARIABLES
    config,          \* the agent configuration: features, symbol_info, symbol_info_index
    client,          \* the record store: index -> bins (a missing index is a miss)
    raw_data_shape,  \* group -> window length, plus "max"
    obs_interval,    \* group -> downsample stride
    raw_data,        \* the caller's window (NoWindow before the first init)
    obs,             \* the observation the last get_obs returned
    ret,             \* the last call: [op, i, result, gets (the keys it fetched)]
    old,             \* the window as it was when the last call started
    steps,           \* number of calls made so far
    util,            \* a numeric-utility call: [op, args, done, result]
    since_init       \* number of update_raw_data calls that returned since
                     \* init_raw_data returned the window, when no other call
                     \* came in between; -1 otherwise

vars == <<config, client, raw_data_shape, obs_interval, raw_data, obs, ret, old,
          steps, util, since_init>>

(***************************************************************************)
(* Bounds of the model.                                                    *)
(***************************************************************************)
MaxShape == 3     \* window lengths 1..MaxShape
MaxStride == 2    \* strides 1..MaxStride
MaxIndex == 4     \* the generic store holds records 0..MaxIndex
MaxSteps == 4     \* calls per session

(***************************************************************************)
(* float32.  A float32 holds every integer of magnitude below 2^24; above, *)
(* it holds the multiples of its unit in the last place, and the cast      *)
(* rounds to the nearest one, ties to the even mantissa.                   *)
(***************************************************************************)
F32Limit == 16777216

Abs(x) == IF x < 0 THEN -x ELSE x

RECURSIVE Ulp(_)
Ulp(a) == IF a < F32Limit THEN 1 ELSE 2 * Ulp(a \div 2)

F32(x) ==
    LET a == Abs(x)
        u == Ulp(a)
        q == a \div u
        r == a % u
        m == IF 2 * r < u THEN q
             ELSE IF 2 * r > u THEN q + 1
             ELSE IF q % 2 = 0 THEN q ELSE q + 1
    IN  IF x < 0 THEN -(m * u) ELSE m * u

F32Row(row) == [c \in 1..Len(row) |-> F32(row[c])]

RECURSIVE Pow2(_)
Pow2(n) == IF n = 0 THEN 1 ELSE 2 * Pow2(n - 1)

(***************************************************************************)
(* The store and the configuration.                                        *)
(***************************************************************************)
\* Every stored feature value is a multiple of DataUnit, so that the MaxSteps
\* divisions by a pip of at most 4 that a session can make are exact.
DataUnit == Pow2(2 * (MaxSteps + 1))

\* A value float32 cannot hold: 2^24 + 1.
Unrepresentable == F32Limit + 1

GenericBins(j) ==
    [k \in {"0", "1", "date", "trade_price", "date_arr"} |->
        CASE k = "0" -> <<DataUnit * ((3 * j * j + 1) % 7), DataUnit * (10 + j)>>
          [] k = "1" -> <<IF j = 2 THEN Unrepresentable ELSE DataUnit * (5 + 2 * j),
                          DataUnit * (20 - j)>>
          [] k = "date" -> 1000 + j
          [] k = "trade_price" -> DataUnit * (5 + 2 * j)
          [] k = "date_arr" -> <<j % 2, j % 3, j % 5>>]

GenericStore == [j \in 0..MaxIndex |-> GenericBins(j)]

\* The same store with the record at index 3 absent.
HoledStore == [j \in (0..MaxIndex) \ {3} |-> GenericBins(j)]

GenericConfig ==
    [features |->
        <<[simple_features |-> <<[symbol |-> "SYM_A", transforms |-> <<>>]>>],
          [simple_features |->
              <<[symbol |-> "SYM_B",
                 transforms |-> <<[kind |-> "scale", by |-> 3],
                                  [kind |-> "clip", lo |-> -(DataUnit * 6),
                                   hi |-> DataUnit * 6]>>]>>]>>,
     symbol_info |-> <<[symbol |-> "SYM_B", pip |-> 4], [symbol |-> "SYM_A", pip |-> 2]>>,
     symbol_info_index |-> [s \in {"SYM_A", "SYM_B"} |-> IF s = "SYM_B" THEN 0 ELSE 1]]

GenericShapes == [{"0", "1", "max"} -> 1..MaxShape]

GenericIntervals == [{"0", "1"} -> 1..MaxStride]

\* The scenario of the specification: raw_data_shape {"0": 10, "max": 10},
\* obs_interval {"0": 1}, 11 ticks 100.0, 100.1, ..., 101.0, pip 0.0001, no
\* transform.  Prices and the pip are carried in units of one pip (0.0001).
ScenarioBins(j) ==
    [k \in {"0", "date", "trade_price", "date_arr"} |->
        CASE k = "0" -> <<1000000 + 1000 * j>>
          [] k = "date" -> 1000 + j
          [] k = "trade_price" -> 1000000 + 1000 * j
          [] k = "date_arr" -> <<j % 2, j % 3, j % 5>>]

ScenarioStore == [j \in 0..10 |-> ScenarioBins(j)]

ScenarioConfig ==
    [features |-> <<[simple_features |-> <<[symbol |-> "SYM_A", transforms |-> <<>>]>>]>>,
     symbol_info |-> <<[symbol |-> "SYM_A", pip |-> 1]>>,
     symbol_info_index |-> [s \in {"SYM_A"} |-> 0]]

ScenarioShape == [k \in {"0", "max"} |-> 10]

ScenarioInterval == [k \in {"0"} |-> 1]

NoWindow == [k \in {} |-> 0]

NoObs == [k \in {} |-> 0]

NoCall == [op |-> "none", i |-> 0, result |-> "ok", gets |-> <<>>]

NoUtil == [op |-> "none", args |-> <<>>, done |-> FALSE, result |-> <<>>]

\* str(feat_group_ind)
Str(n) == CASE n = 0 -> "0" [] n = 1 -> "1" [] n = 2 -> "2" [] OTHER -> "?"

FeatGroupInds(shape) == DOMAIN shape \ {"max"}

(***************************************************************************)
(* init_raw_data                                                           *)
(***************************************************************************)
\* seq[-n:] of Python: the last n entries; the whole list when n = 0 or n >= len.
NegSliceAll(seq, n) == seq

NegSlice(seq, n) ==
    IF n = 0 \/ n >= Len(seq) THEN seq
    ELSE [p \in 1..n |-> seq[Len(seq) - n + p]]

\* range(i - raw_data_shape["max"], i + 1)
FetchRange(shape, i) == (i - shape["max"])..i

\* The list raw_data[k] after the fetch loop: bins[k] of every record of the range.
Fetched(store, shape, i, k) ==
    [p \in 1..(shape["max"] + 1) |-> store[i - shape["max"] + p - 1][k]]

\* np.array(rows, dtype=np.float32)
F32Array(rows) == [p \in 1..Len(rows) |-> F32Row(rows[p])]

InitWindow(store, shape, i) ==
    [k \in FeatGroupInds(shape) \cup {"date", "trade_price", "date_arr"} |->
        IF k \in {"date", "trade_price", "date_arr"}
        THEN store[i][k]
        ELSE F32Array(NegSlice(Fetched(store, shape, i, k), shape[k]))]

\* The keys the fetch loop passes to client.get, in order, from j up to last: the
\* loop ends at the first key the store lacks, where client.get raises.
RECURSIVE Gets(_, _, _)
Gets(store, j, last) ==
    IF j > last THEN <<>>
    ELSE IF j \notin DOMAIN store THEN <<j>>
    ELSE <<j>> \o Gets(store, j + 1, last)

\* A loop that steps over the keys the store lacks and builds the window from
\* the records it found.
InitReturnSkipping(store, shape, i) ==
    LET found == SelectSeq([p \in 1..(shape["max"] + 1) |-> i - shape["max"] + p - 1],
                           LAMBDA j : j \in DOMAIN store)
    IN  IF found = <<>>
        THEN [result |-> "RecordNotFound", gets |-> Gets(store, i - shape["max"], i)]
        ELSE [result |-> "ok",
              gets |-> [p \in 1..(shape["max"] + 1) |-> i - shape["max"] + p - 1],
              window |->
                  [k \in FeatGroupInds(shape) \cup {"date", "trade_price", "date_arr"} |->
                      IF k \in {"date", "trade_price", "date_arr"}
                      THEN store[found[Len(found)]][k]
                      ELSE F32Array(NegSlice([p \in 1..Len(found) |-> store[found[p]][k]],
                                             shape[k]))]]

\* What a call of init_raw_data comes to: the window it returns, or the error
\* client.get raised, which ends the call before anything is returned.
InitReturn(store, shape, i) ==
    LET gets == Gets(store, i - shape["max"], i)
    IN  IF \A p \in 1..Len(gets) : gets[p] \in DOMAIN store
        THEN [result |-> "ok", gets |-> gets, window |-> InitWindow(store, shape, i)]
        ELSE [result |-> "RecordNotFound", gets |-> gets]

init_raw_data(i) ==
    /\ steps < MaxSteps
    /\ steps' = steps + 1
    /\ old' = raw_data
    /\ \E out \in {InitReturn(client, raw_data_shape, i)} :
           /\ raw_data' = IF out.result = "ok" THEN out.window ELSE raw_data
           /\ ret' = [op |-> "init_raw_data", i |-> i, result |-> out.result,
                      gets |-> out.gets]
           /\ since_init' = IF out.result = "ok" THEN 0 ELSE -1
    /\ UNCHANGED <<config, client, raw_data_shape, obs_interval, obs, util>>

(***************************************************************************)
(* update_raw_data                                                         *)
(***************************************************************************)
AppendOnly(buf, row) == Append(buf, row)

\* An update that shifts the buffers and leaves date, trade_price and date_arr
\* as they were.
UpdateWindowStale(window, shape, bins) ==
    [k \in DOMAIN window |->
        IF k \in FeatGroupInds(shape)
        THEN Tail(Append(window[k], F32Row(bins[k])))
        ELSE window[k]]

\* np.vstack([raw_data[k], bins[k]])[1:]
ShiftAppend(buf, row) == Tail(Append(buf, row))

UpdateWindow(window, shape, bins) ==
    [k \in DOMAIN window |->
        IF k \in FeatGroupInds(shape)
        THEN ShiftAppend(window[k], F32Row(bins[k]))
        ELSE bins[k]]

update_raw_data(i) ==
    /\ steps < MaxSteps
    /\ raw_data # NoWindow
    /\ steps' = steps + 1
    /\ old' = raw_data
    /\ IF i \in DOMAIN client
       THEN /\ raw_data' = UpdateWindow(raw_data, raw_data_shape, client[i])
            /\ ret' = [op |-> "update_raw_data", i |-> i, result |-> "ok",
                       gets |-> <<i>>]
            /\ since_init' = IF since_init >= 0 THEN since_init + 1 ELSE -1
       ELSE /\ raw_data' = raw_data
            /\ ret' = [op |-> "update_raw_data", i |-> i, result |-> "RecordNotFound",
                       gets |-> <<i>>]
            /\ since_init' = -1
    /\ UNCHANGED <<config, client, raw_data_shape, obs_interval, obs, util>>

(***************************************************************************)
(* get_obs                                                                 *)
(***************************************************************************)
\* buf[::s]: the rows at positions 0, s, 2s, ... (a view of buf, not a copy)
Downsample(buf, s) ==
    [j \in 1..((Len(buf) + s - 1) \div s) |-> buf[(j - 1) * s + 1]]

\* One stage of releat.data.transformers.apply_transform: an elementwise
\* numeric stage on a float32 column.
ApplyTransform(feats, tc) ==
    [j \in 1..Len(feats) |->
        CASE tc.kind = "scale" -> F32(feats[j] * tc.by)
          [] tc.kind = "clip" ->
               IF feats[j] < tc.lo THEN tc.lo
               ELSE IF feats[j] > tc.hi THEN tc.hi ELSE feats[j]
          [] OTHER -> feats[j]]

RECURSIVE ApplyTransforms(_, _)
ApplyTransforms(feats, tcs) ==
    IF tcs = <<>> THEN feats
    ELSE ApplyTransforms(ApplyTransform(feats, Head(tcs)), Tail(tcs))

\* fc = config["features"][feat_group_ind].simple_features[0]
FeatConfig(cfg, feat_group_ind) == cfg.features[feat_group_ind + 1].simple_features[1]

\* config["symbol_info"][config["symbol_info_index"][fc.symbol]].pip
Pip(cfg, feat_group_ind) ==
    cfg.symbol_info[cfg.symbol_info_index[FeatConfig(cfg, feat_group_ind).symbol] + 1].pip

DeltaReversed(col) == [j \in 1..Len(col) |-> F32(col[Len(col)] - col[j])]

\* feats - feats[-1]
Delta(col) == [j \in 1..Len(col) |-> F32(col[j] - col[Len(col)])]

\* feats[:-1] / pip
PipNormalize(delta, pip) == [j \in 1..(Len(delta) - 1) |-> F32(delta[j] \div pip)]

\* The transformed channel-0 column of a downsampled group.
Feats(cfg, feat_group_ind, ds) ==
    ApplyTransforms(
        PipNormalize(Delta([j \in 1..Len(ds) |-> ds[j][1]]), Pip(cfg, feat_group_ind)),
        FeatConfig(cfg, feat_group_ind).transforms)

OnlyGroupZero(interval) == {"0"}

\* The groups the loop over range(len(feat_group_inds)) treats: str(0), ..., str(n-1)
TreatedGroups(interval) == {Str(n) : n \in 0..(Cardinality(DOMAIN interval) - 1)}

GroupIndex(k) == CHOOSE n \in 0..2 : Str(n) = k

\* The downsampled view with its first row kept.
TreatedObsNoDrop(ds, feats) ==
    [j \in 1..Len(ds) |->
        F32Row(IF j = 1 THEN ds[1] ELSE [ds[j] EXCEPT ![1] = feats[j - 1]])]

\* obs[k] of a treated group: rows 1.. of the downsampled view, channel 0
\* overwritten with feats, cast to float32.
TreatedObs(ds, feats) ==
    [j \in 1..(Len(ds) - 1) |-> F32Row([ds[j + 1] EXCEPT ![1] = feats[j]])]

\* obs[k][:, 0] = feats[:, 0] writes through the view obs[k] = raw_data[k][::s][1:]
\* into the window: row j*s of the buffer, j >= 1, gets feats[j-1] in channel 0.
WriteThrough(buf, s, feats) ==
    [p \in 1..Len(buf) |->
        IF p > 1 /\ (p - 1) % s = 0
        THEN [buf[p] EXCEPT ![1] = feats[(p - 1) \div s]]
        ELSE buf[p]]

ObsOf(cfg, interval, window) ==
    [k \in DOMAIN interval \cup {"date_arr"} |->
        IF k = "date_arr" THEN F32Row(window["date_arr"])
        ELSE IF k \in TreatedGroups(interval)
        THEN TreatedObs(Downsample(window[k], interval[k]),
                        Feats(cfg, GroupIndex(k), Downsample(window[k], interval[k])))
        ELSE Downsample(window[k], interval[k])]

WindowAfterObs(cfg, interval, window) ==
    [k \in DOMAIN window |->
        IF k \in DOMAIN interval /\ k \in TreatedGroups(interval)
        THEN WriteThrough(window[k], interval[k],
                          Feats(cfg, GroupIndex(k), Downsample(window[k], interval[k])))
        ELSE window[k]]

get_obs ==
    /\ steps < MaxSteps
    /\ raw_data # NoWindow
    /\ steps' = steps + 1
    /\ old' = raw_data
    /\ obs' = ObsOf(config, obs_interval, raw_data)
    /\ raw_data' = WindowAfterObs(config, obs_interval, raw_data)
    /\ ret' = [op |-> "get_obs", i |-> ret.i, result |-> "ok", gets |-> <<>>]
    /\ since_init' = -1
    /\ UNCHANGED <<config, client, raw_data_shape, obs_interval, util>>

(***************************************************************************)
(* A session: one environment with its configuration, store and window.    *)
(***************************************************************************)
\* The indices a reset passes: from one before the store's first to one after its
\* last.  Every step then passes the index after the last one.
LastIndex(store) == CHOOSE j \in DOMAIN store : \A h \in DOMAIN store : h <= j

CallIndices == -1..(LastIndex(client) + 1)

Init ==
    /\ \/ /\ config = GenericConfig
          /\ client = GenericStore
          /\ raw_data_shape \in GenericShapes
          /\ obs_interval \in GenericIntervals
       \/ /\ config = GenericConfig
          /\ client = HoledStore
          /\ raw_data_shape \in GenericShapes
          /\ obs_interval = [k \in {"0", "1"} |-> 1]
       \/ /\ config = ScenarioConfig
          /\ client = ScenarioStore
          /\ raw_data_shape = ScenarioShape
          /\ obs_interval = ScenarioInterval
    /\ raw_data = NoWindow
    /\ obs = NoObs
    /\ ret = NoCall
    /\ old = NoWindow
    /\ steps = 0
    /\ util = NoUtil
    /\ since_init = -1

Next ==
    \/ \E i \in CallIndices : init_raw_data(i)
    \/ update_raw_data(ret.i + 1)
    \/ get_obs

Spec == Init /\ [][Next]_vars

(***************************************************************************)
(* sample_price.  Prices are whole numbers of points and a pip is a whole  *)
(* multiple of 10 points, so that x * pip / 10 is exact.                   *)
(***************************************************************************)
MaxPrice == 4     \* prices 0..MaxPrice points

Pips == {10, 20}

\* int(x / y) of Python: the quotient truncated toward zero
TruncDiv(x, y) == IF x >= 0 THEN x \div y ELSE -((-x) \div y)

\* releat.data.simple.stats.randint(low, high): the integers a draw can give,
\* low inclusive, high exclusive
Randint(low, high) == low..(high - 1)

\* The integers sample_price draws from:
\* randint(int(min_p * 10 / pip), int(max_p * 10 / pip) + 1)
SampleDraws(min_p, max_p, pip) ==
    Randint(TruncDiv(min_p * 10, pip), TruncDiv(max_p * 10, pip) + 1)

\* r * pip / 10
Rescale(r, pip) == (r * pip) \div 10

\* A call still to be made
Pending(op) == util.op = op /\ ~util.done

sample_price ==
    /\ Pending("sample_price")
    /\ LET min_p == util.args[1]
           max_p == util.args[2]
           pip == util.args[3]
       IN  \E r \in SampleDraws(min_p, max_p, pip) :
              util' = [util EXCEPT !.done = TRUE, !.result = Rescale(r, pip)]
    /\ UNCHANGED <<config, client, raw_data_shape, obs_interval, raw_data, obs, ret,
                   old, steps, since_init>>

(***************************************************************************)
(* get_curr_price                                                          *)
(***************************************************************************)
\* pip = symbol_info[0].pip, for every symbol i
CurrPip(symbol_info, i) == symbol_info[1].pip

\* The draws get_curr_price can make: for symbol i (0-based), one for the bid,
\* from price[4i], price[4i+1], and one for the ask, from price[4i+2], price[4i+3].
CurrDraws(symbol_info, price) ==
    {d \in [1..Len(symbol_info) -> [1..2 -> 0..(MaxPrice + 1)]] :
        \A i \in 0..(Len(symbol_info) - 1) :
            /\ d[i + 1][1] \in SampleDraws(price[4 * i + 1], price[4 * i + 2],
                                           CurrPip(symbol_info, i))
            /\ d[i + 1][2] \in SampleDraws(price[4 * i + 3], price[4 * i + 4],
                                           CurrPip(symbol_info, i))}

\* curr_price, a float32 matrix of len(symbol_info) rows [bid, ask]
CurrPrice(symbol_info, d) ==
    [i \in 1..Len(symbol_info) |->
        [c \in 1..2 |-> F32(Rescale(d[i][c], CurrPip(symbol_info, i - 1)))]]

\* The prices of a symbol's quotes: the multiples of its point, pip / 10.
Quotes(pip) == {p \in 0..MaxPrice : p % (pip \div 10) = 0}

\* A symbol's four scalars [bid_low, bid_high, ask_low, ask_high]: the ask one
\* point above the bid.
Bars(pip) ==
    {<<b[1], b[2], b[1] + pip \div 10, b[2] + pip \div 10>> :
        b \in {q \in Quotes(pip) \X Quotes(pip) : q[1] <= q[2]}}

get_curr_price ==
    /\ Pending("get_curr_price")
    /\ LET symbol_info == util.args[1]
           price == util.args[2]
       IN  \E d \in CurrDraws(symbol_info, price) :
              util' = [util EXCEPT !.done = TRUE, !.result = CurrPrice(symbol_info, d)]
    /\ UNCHANGED <<config, client, raw_data_shape, obs_interval, raw_data, obs, ret,
                   old, steps, since_init>>

(***************************************************************************)
(* portfolio_to_model_input.  Cells are kept symbolic: what was computed   *)
(* from which cells of the portfolio.                                      *)
(***************************************************************************)
MaxRows == 3      \* portfolio rows 1..MaxRows
MaxSlots == 3     \* portfolio columns 7, 14, ..., 7 * MaxSlots

\* A portfolio of the given shape, every cell distinct.
Portfolio(rows, cols) == [r \in 1..rows |-> [c \in 1..cols |-> 100 * r + (c - 1)]]

\* The columns portfolio[:, 5::7] keeps: 5, 12, 19, ... below cols (0-based)
StridedColumns(cols) ==
    [n \in 1..(IF cols > 5 THEN (cols - 5 + 6) \div 7 ELSE 0) |-> 5 + 7 * (n - 1)]

\* scale_pos_val(x): clip(apply_log_tail(x, 0, -1) / 3.0 + x * 0.03, -2.0, 2.0)
ScalePosVal(x) == [fn |-> "scale_pos_val", x |-> F32(x)]

\* v after the two column assignments, for a portfolio with at least two strided
\* columns and a column 6.
ModelInputMatrix(portfolio) ==
    LET cols == StridedColumns(Len(portfolio[1]))
    IN  [r \in 1..Len(portfolio) |->
            [n \in 1..Len(cols) |->
                CASE n = 1 -> [fn |-> "times_col6_half",
                               x |-> portfolio[r][cols[1] + 1],
                               y |-> portfolio[r][7]]
                  [] n = 2 -> ScalePosVal(portfolio[r][cols[2] + 1])
                  [] OTHER -> [fn |-> "copy", x |-> portfolio[r][cols[n] + 1]]]]

FlattenFirstRow(m) == IF Len(m) = 0 THEN <<>> ELSE m[1]

\* v.flatten(): row-major
Flatten(m) ==
    IF Len(m) = 0 THEN <<>>
    ELSE [p \in 1..(Len(m) * Len(m[1])) |->
            m[((p - 1) \div Len(m[1])) + 1][((p - 1) % Len(m[1])) + 1]]

\* What a call can give.  With fewer than two strided columns v[:, 1] indexes
\* past the row (the kernel is compiled without bounds checks): the call either
\* crashes or returns v flattened with indeterminate cells.
ModelInputs(portfolio) ==
    IF Len(StridedColumns(Len(portfolio[1]))) >= 2
    THEN {[status |-> "ok", v |-> Flatten(ModelInputMatrix(portfolio))]}
    ELSE {[status |-> "crash", v |-> <<>>],
          [status |-> "ok",
           v |-> Flatten([r \in 1..Len(portfolio) |->
                            [n \in 1..Len(StridedColumns(Len(portfolio[1]))) |->
                                [fn |-> "indeterminate"]]])]}

portfolio_to_model_input ==
    /\ Pending("portfolio_to_model_input")
    /\ \E out \in ModelInputs(util.args[1]) :
          util' = [util EXCEPT !.done = TRUE, !.result = out]
    /\ UNCHANGED <<config, client, raw_data_shape, obs_interval, raw_data, obs, ret,
                   old, steps, since_init>>

(***************************************************************************)
(* The numeric utilities, called on their own.                             *)
(***************************************************************************)
\* The calls made: sample_price on every min_p <= max_p and pip; get_curr_price
\* on two symbols, each with its own pip and quotes; portfolio_to_model_input on
\* a portfolio of shape (rows, 7 * slots).
Call(op, args) == [op |-> op, args |-> args, done |-> FALSE, result |-> <<>>]

InitUtils ==
    /\ config = GenericConfig
    /\ client = GenericStore
    /\ raw_data_shape = [k \in {"0", "1", "max"} |-> 1]
    /\ obs_interval = [k \in {"0", "1"} |-> 1]
    /\ raw_data = NoWindow
    /\ obs = NoObs
    /\ ret = NoCall
    /\ old = NoWindow
    /\ steps = 0
    /\ since_init = -1
    /\ \/ \E min_p \in 0..MaxPrice, max_p \in 0..MaxPrice, pip \in Pips :
             /\ min_p <= max_p
             /\ util = Call("sample_price", <<min_p, max_p, pip>>)
       \/ \E p0 \in Pips, p1 \in Pips :
          \E b0 \in Bars(p0), b1 \in Bars(p1) :
             util = Call("get_curr_price", <<<<[pip |-> p0], [pip |-> p1]>>, b0 \o b1>>)
       \/ \E rows \in 1..MaxRows, slots \in 1..MaxSlots :
             util = Call("portfolio_to_model_input", <<Portfolio(rows, 7 * slots)>>)

NextUtils ==
    \/ sample_price
    \/ get_curr_price
    \/ portfolio_to_model_input

SpecUtils == InitUtils /\ [][NextUtils]_vars

(***************************************************************************)
(* Properties                                                              *)
(***************************************************************************)
Groups == FeatGroupInds(raw_data_shape)

\* A valid shape map: "max" is the largest per-group length.
ValidShape(shape) ==
    /\ \E k \in FeatGroupInds(shape) : shape[k] = shape["max"]
    /\ \A k \in FeatGroupInds(shape) : shape[k] <= shape["max"]

Returned(op) == ret.op = op /\ ret.result = "ok"

\* C1: for a valid shape map, the window init_raw_data returns (every record of
\* its fetch range being in the store) holds for every group other than "max" a
\* buffer of length exactly shape[group].
C1_InitLengths ==
    (Returned("init_raw_data") /\ ValidShape(raw_data_shape))
        => \A k \in Groups : Len(raw_data[k]) = raw_data_shape[k]

\* C1 witness: an init that returned, under a valid shape map whose two groups
\* have different lengths, both shorter than the fetch range.
C1_Witness ==
    /\ Returned("init_raw_data")
    /\ ValidShape(raw_data_shape)
    /\ DOMAIN raw_data_shape = {"0", "1", "max"}
    /\ raw_data_shape["0"] = 1
    /\ raw_data_shape["1"] = 3
    /\ Len(raw_data["0"]) = 1
    /\ Len(raw_data["1"]) = 3

\* C2: after update_raw_data returns, each group's buffer is the old buffer
\* shifted left by one (its first entry dropped), with the group's field of the
\* record at the given index, as float32, in the last place; the length is the
\* same as before.
C2_UpdateShifts ==
    Returned("update_raw_data")
        => \A k \in Groups :
              /\ Len(raw_data[k]) = Len(old[k])
              /\ \A p \in 1..(Len(old[k]) - 1) : raw_data[k][p] = old[k][p + 1]
              /\ raw_data[k][Len(raw_data[k])] = F32Row(client[ret.i][k])

\* C2 witness: an update that returned on a window with a buffer of three
\* entries, no two of them equal.
C2_Witness ==
    /\ Returned("update_raw_data")
    /\ \E k \in Groups :
          /\ Len(old[k]) = 3
          /\ old[k][1] # old[k][2]
          /\ old[k][2] # old[k][3]
          /\ raw_data[k][3] # old[k][3]

\* C3: get_obs leaves every group buffer and every side-channel field of the
\* window as it was before the call.
C3_GetObsKeepsWindow == ret.op = "get_obs" => raw_data = old

\* The downsampled rows of group k of the window get_obs was called on.
OldDownsampled(k) == Downsample(old[k], obs_interval[k])

\* C4, as claimed: in the observation, every group other than group 0 holds
\* exactly the downsampled values of the window (with or without the first row),
\* nothing else done to them.
C4_OnlyGroupZeroTreated ==
    ret.op = "get_obs"
        => \A k \in DOMAIN obs_interval \ {"0"} :
              \/ obs[k] = F32Array(OldDownsampled(k))
              \/ obs[k] = F32Array(Tail(OldDownsampled(k)))

\* C4, amended: get_obs treats channel 0 of every group of the interval map and
\* drops the first downsampled row of every group: row j of the observation
\* holds, in channel 0, the transformed pip-normalised delta of downsampled row
\* j and, in every other channel, the value of downsampled row j + 1.
C4_EveryGroupTreated ==
    ret.op = "get_obs"
        => \A k \in DOMAIN obs_interval :
              LET ds == OldDownsampled(k)
                  g == GroupIndex(k)
                  feats == ApplyTransforms(
                              [j \in 1..(Len(ds) - 1) |->
                                  F32(F32(ds[j][1] - ds[Len(ds)][1]) \div Pip(config, g))],
                              FeatConfig(config, g).transforms)
              IN  /\ Len(obs[k]) = Len(ds) - 1
                  /\ \A j \in 1..(Len(ds) - 1) :
                        /\ obs[k][j][1] = feats[j]
                        /\ \A c \in 2..Len(ds[j + 1]) : obs[k][j][c] = F32(ds[j + 1][c])

\* C4 witness: a get_obs on two groups where group 1 keeps two rows and its
\* channel 0 differs from the downsampled values.
C4_Witness ==
    /\ ret.op = "get_obs"
    /\ "1" \in DOMAIN obs_interval
    /\ Len(obs["1"]) = 2
    /\ Len(obs["0"]) = 1
    /\ obs["1"][1][1] # OldDownsampled("1")[2][1]
    /\ obs["1"][1][2] = OldDownsampled("1")[2][2]

\* The scenario: raw_data_shape {"0": 10, "max": 10}, obs_interval {"0": 1}, the
\* window of init_raw_data at the last of the 11 ticks, then get_obs.
ScenarioObserved ==
    /\ client = ScenarioStore
    /\ ret.op = "get_obs"
    /\ old = InitWindow(ScenarioStore, ScenarioShape, 10)

\* The channel-0 delta series of the scenario before its last point is dropped.
ScenarioDelta == Delta([j \in 1..Len(OldDownsampled("0")) |-> OldDownsampled("0")[j][1]])

\* C9, as claimed: downsampled length 10, the delta zero at the last point before
\* the drop, and the value at the first retained point -(100.9 - 101.0)/0.0001
\* (in pips: -(1009000 - 1010000)), whether the first retained point is taken to
\* be the oldest or the one next to the dropped point.
C9_AsClaimed ==
    ScenarioObserved
        => /\ Len(OldDownsampled("0")) = 10
           /\ ScenarioDelta[10] = 0
           /\ \/ obs["0"][1][1] = -(1009000 - 1010000)
              \/ obs["0"][Len(obs["0"])][1] = -(1009000 - 1010000)

\* C9, amended: downsampled length 10, the delta zero at the last point before
\* the drop, and the nine retained values (tick - 101.0)/0.0001 of the ticks
\* 100.1, ..., 100.9: -9000 at the first retained point, -1000 at the last.
C9_Scenario ==
    ScenarioObserved
        => /\ Len(OldDownsampled("0")) = 10
           /\ ScenarioDelta[10] = 0
           /\ Len(obs["0"]) = 9
           /\ \A j \in 1..9 : obs["0"][j][1] = (1000000 + 1000 * j) - 1010000
           /\ obs["0"][1][1] = -9000
           /\ obs["0"][9][1] = 1009000 - 1010000

\* C9 witness: the scenario, observed.
C9_Witness == ScenarioObserved /\ Len(obs["0"]) = 9

\* C10: an update_raw_data that returns a window leaves every group's buffer
\* with length shape[group] (a mismatch makes the call fail instead).
C10_MismatchFails ==
    Returned("update_raw_data")
        => \A k \in Groups : Len(raw_data[k]) = raw_data_shape[k]

\* The call missed the store: a key of init's fetch range, or update's key, has
\* no record.
Missed ==
    \/ /\ ret.op = "init_raw_data"
       /\ \E j \in (ret.i - raw_data_shape["max"])..ret.i : j \notin DOMAIN client
    \/ /\ ret.op = "update_raw_data"
       /\ ret.i \notin DOMAIN client

\* C11: a call of init_raw_data or update_raw_data that misses the store raises:
\* it hands no window back, the window held before the call keeps every group
\* buffer and side-channel field, and the call has passed no key to client.get
\* twice and none after the missing one.
C11_MissIsFatal ==
    Missed =>
        /\ ret.result = "RecordNotFound"
        /\ raw_data = old
        /\ \A p, q \in 1..Len(ret.gets) : ret.gets[p] = ret.gets[q] => p = q
        /\ \A p \in 1..(Len(ret.gets) - 1) : ret.gets[p] \in DOMAIN client
        /\ ret.gets[Len(ret.gets)] \notin DOMAIN client

\* C11 witness: an init_raw_data, called while a window is held, whose fetch range
\* has records on both sides of the missing one, has raised after fetching a
\* record.
C11_Witness ==
    /\ Missed
    /\ ret.op = "init_raw_data"
    /\ ret.result = "RecordNotFound"
    /\ Len(ret.gets) >= 2
    /\ ret.i \in DOMAIN client
    /\ raw_data # NoWindow
    /\ raw_data = old

\* The positions 0, s, 2s, ... below n.
StridePositions(n, s) == {p \in 0..(n - 1) : p % s = 0}

\* C12: the observation get_obs returns has the keys of the interval map and
\* "date_arr"; under a group k whose window buffer has n rows of c channels it
\* holds d - 1 rows of c channels, d being the number of positions 0, s, 2s, ...
\* below n for the stride s = obs_interval[k]; under "date_arr" it holds the
\* window's date_arr, as float32.
C12_ObsShape ==
    ret.op = "get_obs" =>
        /\ DOMAIN obs = DOMAIN obs_interval \cup {"date_arr"}
        /\ \A k \in DOMAIN obs_interval :
              /\ Len(obs[k])
                    = Cardinality(StridePositions(Len(old[k]), obs_interval[k])) - 1
              /\ \A j \in 1..Len(obs[k]) : Len(obs[k][j]) = Len(old[k][1])
        /\ obs["date_arr"] = F32Row(old["date_arr"])

\* C12 witness: get_obs has returned for a window with a three-row buffer read
\* at stride 2 (one row returned) and a three-row buffer read at stride 1 (two
\* rows returned), each row of two channels.
C12_Witness ==
    /\ ret.op = "get_obs"
    /\ \E k, h \in DOMAIN obs_interval :
          /\ obs_interval[k] = 2 /\ Len(old[k]) = 3 /\ Len(obs[k]) = 1
          /\ obs_interval[h] = 1 /\ Len(old[h]) = 3 /\ Len(obs[h]) = 2
          /\ Len(obs[k][1]) = 2 /\ Len(obs[h][2]) = 2
    /\ obs["date_arr"] = old["date_arr"]
    /\ obs["date_arr"][1] # obs["date_arr"][2]

UtilDone(op) == util.op = op /\ util.done

\* C5, as claimed: on a portfolio of shape (K, 7*M) the returned vector has
\* length 2*M (stated here for M >= 2, where every column the kernel indexes
\* exists).
C5_LengthTwoM ==
    (UtilDone("portfolio_to_model_input") /\ Len(util.args[1][1]) >= 14)
        => /\ util.result.status = "ok"
           /\ Len(util.result.v) = 2 * (Len(util.args[1][1]) \div 7)

\* C5, amended: on a portfolio of shape (K, 7*M) a returned vector has length
\* K*M, and with M >= 2 the call returns one.
C5_LengthRowsTimesSlots ==
    UtilDone("portfolio_to_model_input")
        => LET rows == Len(util.args[1])
               slots == Len(util.args[1][1]) \div 7
           IN  /\ util.result.status = "ok" => Len(util.result.v) = rows * slots
               /\ slots >= 2 => util.result.status = "ok"

\* C5 witness: a call on a portfolio of shape (3, 14), which returned 6 values.
C5_Witness ==
    /\ UtilDone("portfolio_to_model_input")
    /\ Len(util.args[1]) = 3
    /\ Len(util.args[1][1]) = 14
    /\ util.result.status = "ok"
    /\ Len(util.result.v) = 6
    /\ util.result.v[2].fn = "scale_pos_val"

\* C6: sample_price(p, p, pip) returns p, whatever the draw.
C6_DegenerateReturnsPrice ==
    (UtilDone("sample_price") /\ util.args[1] = util.args[2])
        => util.result = util.args[1]

\* C7: sample_price(min_p, max_p, pip) returns a multiple of pip/10 within
\* [min_p, max_p], whatever the draw.
C7_WithinRangeOnGrid ==
    UtilDone("sample_price")
        => /\ util.args[1] <= util.result
           /\ util.result <= util.args[2]
           /\ util.result % (util.args[3] \div 10) = 0

\* C8: get_curr_price on two symbols and a price vector of length 8 returns a
\* 2x2 matrix with, for each symbol i, the bid within [price[4i], price[4i+1]]
\* and the ask within [price[4i+2], price[4i+3]].
C8_CurrPriceWithinRanges ==
    UtilDone("get_curr_price")
        => LET price == util.args[2]
               m == util.result
           IN  /\ Len(m) = 2
               /\ \A i \in 0..1 :
                     /\ Len(m[i + 1]) = 2
                     /\ price[4 * i + 1] <= m[i + 1][1]
                     /\ m[i + 1][1] <= price[4 * i + 2]
                     /\ price[4 * i + 3] <= m[i + 1][2]
                     /\ m[i + 1][2] <= price[4 * i + 4]

====
